---------------------------- MODULE Spec2Model ----------------------------
(***************************************************************************)
(* A model of the Yoco payment adapter (src/src/services/yoco-payment.ts,  *)
(* the current variant, lines 246-653) together with the provider's REST   *)
(* API and the host that stores the session data the adapter returns.      *)
(*                                                                         *)
(* Every adapter method runs to its single `await this.api(...)`, where    *)
(* other invocations may interleave; the provider (or the network) then    *)
(* answers; the method's continuation runs to its return or throw.  A      *)
(* method that returns or throws before its await is one step.             *)
(*                                                                         *)
(* JavaScript values are records [t, s, n, half]: t is the type tag, s the *)
(* text of a string, n + (half ? 0.5 : 0) the value of a number.  A string *)
(* is a sequence of text fragments; identifiers, keys and prefixes are     *)
(* written one character per fragment, so that concatenation and equality  *)
(* are those of the JavaScript strings.                                    *)
(***************************************************************************)
EXTENDS Integers, Sequences, FiniteSets, TLC

VARIABLES
    options_,    \* this.options_, or NoAdapter before a successful construction
    ctor,        \* the last constructor call: its argument and its outcome
    sessionData, \* the host's stored session data (what the adapter last returned)
    inflight,    \* invocations suspended at their await, in start order
    last,        \* the invocation that completed last
    checkouts,   \* provider: the checkouts, by position (id "ch_<position>")
    refunds,     \* provider: the refunds it executed
    idem,        \* provider: Idempotency-Key -> the stored response
    nInvoked,    \* number of adapter invocations started
    fin,         \* input of the pure function under check
    fout         \* its output

vars == <<options_, ctor, sessionData, inflight, last, checkouts, refunds, idem,
          nInvoked, fin, fout>>

---------------------------------------------------------------------------
(* Bounds of the model *)

MaxInvocations == 2

MaxInFlight == 2

MaxCheckouts == 2

---------------------------------------------------------------------------
(* JavaScript values *)

Undefined == [t |-> "undefined", s |-> <<>>, n |-> 0, half |-> FALSE]

Null == [t |-> "null", s |-> <<>>, n |-> 0, half |-> FALSE]

NaN == [t |-> "NaN", s |-> <<>>, n |-> 0, half |-> FALSE]

StrV(s) == [t |-> "string", s |-> s, n |-> 0, half |-> FALSE]

NumV(n) == [t |-> "number", s |-> <<>>, n |-> n, half |-> FALSE]

\* the number n + 0.5
HalfV(n) == [t |-> "number", s |-> <<>>, n |-> n, half |-> TRUE]

BoolV(b) == [t |-> "boolean", s |-> <<>>, n |-> IF b THEN 1 ELSE 0, half |-> FALSE]

\* a function object, such as those every object inherits from Object.prototype
FunctionV(name) == [t |-> "function", s |-> <<name>>, n |-> 0, half |-> FALSE]

\* ToBoolean: what `!v`, `v || w` and `v ? a : b` test
Truthy(v) ==
    CASE v.t = "string" -> v.s # <<>>
      [] v.t = "number" -> v.n # 0 \/ v.half
      [] v.t = "function" -> TRUE
      [] v.t = "boolean" -> v.n = 1
      [] OTHER -> FALSE

\* v || w
OrElse(v, w) == IF Truthy(v) THEN v ELSE w

DigitChars == <<"0", "1", "2", "3", "4", "5", "6", "7", "8", "9">>

RECURSIVE Digits(_)
\* the decimal digits of a natural number
Digits(n) ==
    IF n < 10 THEN <<DigitChars[n + 1]>>
    ELSE Digits(n \div 10) \o <<DigitChars[(n % 10) + 1]>>

IsDigit(c) == \E i \in 1..10 : DigitChars[i] = c

DigitValue(c) == (CHOOSE i \in 1..10 : DigitChars[i] = c) - 1

RECURSIVE ParseDigits(_)
ParseDigits(s) ==
    IF s = <<>> THEN 0
    ELSE 10 * ParseDigits(SubSeq(s, 1, Len(s) - 1)) + DigitValue(s[Len(s)])

AllDigits(s) == s # <<>> /\ \A i \in 1..Len(s) : IsDigit(s[i])

\* Number(v), for numbers that are multiples of 0.5 and the strings written
\* as digits, digits followed by ".5", the empty string, or no number at all
Number(v) ==
    CASE v.t = "number" -> v
      [] v.t = "null" -> NumV(0)
      [] v.t = "string" ->
           IF v.s = <<>> THEN NumV(0)
           ELSE IF AllDigits(v.s) THEN NumV(ParseDigits(v.s))
           ELSE IF Len(v.s) > 2 /\ AllDigits(SubSeq(v.s, 1, Len(v.s) - 2))
                   /\ SubSeq(v.s, Len(v.s) - 1, Len(v.s)) = <<".", "5">>
                THEN HalfV(ParseDigits(SubSeq(v.s, 1, Len(v.s) - 2)))
           ELSE NaN
      [] OTHER -> NaN

\* Math.round: to the nearest integer, a half towards +infinity
MathRound(v) ==
    IF v.t = "number" THEN NumV(IF v.half THEN v.n + 1 ELSE v.n) ELSE NaN

\* v < k for an integer k: false when v is NaN
LessThan(v, k) == v.t = "number" /\ v.n < k

\* `${v}` in a template literal
ToStr(v) ==
    CASE v.t = "string" -> v.s
      [] v.t = "undefined" -> <<"u", "n", "d", "e", "f", "i", "n", "e", "d">>
      [] v.t = "null" -> <<"n", "u", "l", "l">>
      [] v.t = "NaN" -> <<"N", "a", "N">>
      [] OTHER ->
           (IF v.n < 0 THEN <<"-">> \o Digits(-v.n) ELSE Digits(v.n))
           \o (IF v.half THEN <<".", "5">> ELSE <<>>)

UpperChar(c) ==
    CASE c = "z" -> "Z" [] c = "a" -> "A" [] c = "r" -> "R"
      [] c = "u" -> "U" [] c = "s" -> "S" [] c = "d" -> "D"
      [] OTHER -> c

\* String.prototype.toUpperCase, on the letters the model's currency codes use
ToUpperCase(s) == [i \in 1..Len(s) |-> UpperChar(s[i])]

StartsWith(s, p) == Len(s) >= Len(p) /\ SubSeq(s, 1, Len(p)) = p

\* an object: a map from property names to values; o[k] is undefined when absent
EmptyObject == [k \in {} |-> Undefined]

Get(o, k) == IF k \in DOMAIN o THEN o[k] ELSE Undefined

\* { ...o, [k]: v }
Put(o, k, v) == [x \in (DOMAIN o) \cup {k} |-> IF x = k THEN v ELSE o[x]]

---------------------------------------------------------------------------
(* Errors *)

\* an Error object: its class, message, code and cause ("" where it has none)
Err(type, message, code, cause) ==
    [type |-> type, message |-> message, code |-> code, cause |-> cause]

NoErr == Err("", <<>>, "", "")

\* the message of `new Error(v)`: empty when v is undefined
ErrorMessage(v) == IF v.t = "undefined" THEN <<>> ELSE ToStr(v)

\* new YocoPaymentError(message, code, originalError)
YocoPaymentError(message, code, cause) == Err("YocoPaymentError", message, code, cause)

\* new Error(message)
PlainError(message) == Err("Error", message, "", "")

\* the provider's error codes the adapter recognises, and YocoErrorCode's member
\* for each
ErrorCodeTable ==
    [card_declined |-> "CARD_DECLINED", insufficient_funds |-> "INSUFFICIENT_FUNDS",
     invalid_card |-> "INVALID_CARD", expired_card |-> "EXPIRED_CARD",
     invalid_cvv |-> "INVALID_CVV", fraud_detected |-> "FRAUD_DETECTED",
     limit_exceeded |-> "LIMIT_EXCEEDED", processing_error |-> "PROCESSING_ERROR"]

\* a provider error body: { errorCode, errorMessage, displayMessage? }
YocoError(errorCode, errorMessage, displayMessage) ==
    [errorCode |-> errorCode, errorMessage |-> errorMessage,
     displayMessage |-> displayMessage]

\* YocoPaymentError.fromYocoError
FromYocoError(e) ==
    YocoPaymentError(
        (IF e.displayMessage.t = "undefined" THEN e.errorMessage ELSE e.displayMessage).s,
        IF e.errorCode \in DOMAIN ErrorCodeTable THEN ErrorCodeTable[e.errorCode]
        ELSE "API_ERROR",
        "YocoError")

---------------------------------------------------------------------------
(* Configuration *)

\* the options object the host passes to the constructor
Options(secretKey, debug, successUrl, cancelUrl, failureUrl) ==
    [secretKey |-> secretKey, debug |-> debug, successUrl |-> successUrl,
     cancelUrl |-> cancelUrl, failureUrl |-> failureUrl]

NoAdapter == Options(Undefined, Undefined, Undefined, Undefined, Undefined)

Letters ==
    {"a", "b", "c", "d", "e", "f", "g", "h", "i", "j", "k", "l", "m", "n", "o", "p",
     "q", "r", "s", "t", "u", "v", "w", "x", "y", "z"}

\* a well-formed absolute URL: a scheme of letters, a colon, and something after it
IsUrl(s) ==
    \E i \in 2..Len(s) :
        /\ s[i] = ":"
        /\ i < Len(s)
        /\ \A j \in 1..(i - 1) : s[j] \in Letters

SkTest == <<"s", "k", "_", "t", "e", "s", "t", "_">>

SkLive == <<"s", "k", "_", "l", "i", "v", "e", "_">>

OptionalUrlOk(v) == v.t = "undefined" \/ (v.t = "string" /\ IsUrl(v.s))

\* YocoOptionsSchema.safeParse(options).success
SchemaAccepts(o) ==
    /\ o.secretKey.t = "string"
    /\ StartsWith(o.secretKey.s, SkTest) \/ StartsWith(o.secretKey.s, SkLive)
    /\ OptionalUrlOk(o.successUrl)
    /\ OptionalUrlOk(o.cancelUrl)
    /\ OptionalUrlOk(o.failureUrl)

ConfigFailed == <<"[Yoco] Configuration validation failed: ">>

\* the earlier constructor: any key starting with "sk_", URLs not looked at
Constructor_prefixOnly(o) ==
    IF ~Truthy(o.secretKey) \/ ~StartsWith(o.secretKey.s, <<"s", "k", "_">>)
    THEN [ok |-> FALSE, options |-> NoAdapter,
          err |-> PlainError(<<"[Yoco] Invalid secretKey format">>)]
    ELSE [ok |-> TRUE, options |-> o, err |-> NoErr]

\* the constructor: the adapter's options_ on success, the error thrown otherwise
Constructor(o) ==
    IF ~SchemaAccepts(o)
    THEN [ok |-> FALSE, options |-> NoAdapter,
          err |-> PlainError(ConfigFailed \o <<"<issues>">>)]
    ELSE [ok |-> TRUE, options |-> o, err |-> NoErr]

---------------------------------------------------------------------------
(* Requests, responses and the api helper *)

MIN_AMOUNT_CENTS == 200

\* an HTTP request to YOCO_API: POST /checkouts (target "checkouts"),
\* GET /checkouts/<id> (target "checkout"), POST /checkouts/<id>/refund
\* (target "refund"); key is the Idempotency-Key header, undefined when not sent
Request(method, target, id, hasBody, body, key, auth) ==
    [method |-> method, target |-> target, id |-> id, hasBody |-> hasBody,
     body |-> body, key |-> key, auth |-> auth]

NoReq == Request("", "", <<>>, FALSE, EmptyObject, Undefined, <<>>)

\* the answer to a request: whether fetch resolved at all, res.ok, whether
\* res.json() parses, and the parsed body (data when ok, err otherwise)
Response(arrived, ok, parses, data, err) ==
    [arrived |-> arrived, ok |-> ok, parses |-> parses, data |-> data, err |-> err]

NoYocoError == YocoError("", Undefined, Undefined)

NoResp == Response(FALSE, FALSE, FALSE, EmptyObject, NoYocoError)

\* JSON.stringify of a flat object: undefined members are left out, NaN is null
JsonStringify(o) ==
    [k \in {x \in DOMAIN o : o[x].t \notin {"undefined", "function"}} |->
        IF o[k].t = "NaN" THEN Null ELSE o[k]]

\* an api that never sends the Idempotency-Key header
ApiRequest_noIdempotencyKey(opts, target, id, method, hasBody, body, idempotencyKey) ==
    Request(method, target, id, hasBody,
            IF hasBody THEN JsonStringify(body) ELSE EmptyObject,
            Undefined,
            <<"Bearer ">> \o opts.secretKey.s)

\* api, up to its fetch: the request it sends
ApiRequest(opts, target, id, method, hasBody, body, idempotencyKey) ==
    Request(method, target, id, hasBody,
            IF hasBody THEN JsonStringify(body) ELSE EmptyObject,
            IF method = "POST" /\ Truthy(idempotencyKey) THEN idempotencyKey
            ELSE Undefined,
            <<"Bearer ">> \o opts.secretKey.s)

\* what api gives its caller: the parsed body, or the error it throws; fetches is
\* the number of times it called fetch
ApiOk(data) == [threw |-> FALSE, data |-> data, err |-> NoErr, fetches |-> 1]

ApiThrew(err) == [threw |-> TRUE, data |-> EmptyObject, err |-> err, fetches |-> 1]

NetworkErrorMessage == <<"Network error communicating with Yoco">>

\* the earlier api: a plain Error carrying only the provider's message, and a
\* failed fetch or parse thrown on as it is
Api_plainError(resp) ==
    IF ~resp.arrived THEN ApiThrew(PlainError(<<"fetch failed">>))
    ELSE IF ~resp.parses THEN ApiThrew(PlainError(<<"Unexpected token">>))
    ELSE IF ~resp.ok
    THEN ApiThrew(PlainError(
             OrElse(resp.err.displayMessage,
                    OrElse(resp.err.errorMessage, StrV(<<"Yoco API error">>))).s))
    ELSE ApiOk(resp.data)

\* an api that sends its request a second time when the first attempt failed
\* (and fails the same way)
Api_retryOnce(resp) ==
    IF ~resp.arrived
    THEN [ApiThrew(YocoPaymentError(NetworkErrorMessage, "NETWORK_ERROR",
                                    "TypeError: fetch failed")) EXCEPT !.fetches = 2]
    ELSE IF ~resp.parses
    THEN [ApiThrew(YocoPaymentError(NetworkErrorMessage, "NETWORK_ERROR",
                                    "SyntaxError: invalid JSON")) EXCEPT !.fetches = 2]
    ELSE IF ~resp.ok THEN [ApiThrew(FromYocoError(resp.err)) EXCEPT !.fetches = 2]
    ELSE ApiOk(resp.data)

\* api, from its fetch on
Api(resp) ==
    IF ~resp.arrived
    THEN ApiThrew(YocoPaymentError(NetworkErrorMessage, "NETWORK_ERROR",
                                   "TypeError: fetch failed"))
    ELSE IF ~resp.parses
    THEN ApiThrew(YocoPaymentError(NetworkErrorMessage, "NETWORK_ERROR",
                                   "SyntaxError: invalid JSON"))
    ELSE IF ~resp.ok THEN ApiThrew(FromYocoError(resp.err))
    ELSE ApiOk(resp.data)

---------------------------------------------------------------------------
(* mapStatus *)

\* the members every object literal inherits from Object.prototype
ObjectPrototypeKeys ==
    {<<"constructor">>, <<"toString">>, <<"valueOf">>, <<"hasOwnProperty">>,
     <<"isPrototypeOf">>, <<"propertyIsEnumerable">>, <<"toLocaleString">>}

\* map[status]: the literal's own members first, then the inherited ones
StatusMapLookup(s) ==
    CASE s = <<"completed">> -> StrV(<<"authorized">>)
      [] s = <<"cancelled">> -> StrV(<<"canceled">>)
      [] s = <<"expired">> -> StrV(<<"canceled">>)
      [] s \in ObjectPrototypeKeys -> FunctionV(s[1])
      [] OTHER -> Undefined

mapStatus(status) == OrElse(StatusMapLookup(ToStr(status)), StrV(<<"pending">>))

---------------------------------------------------------------------------
(* What an adapter method does *)

\* a method's outcome: what it returns ({ id, status, data }) or the error it throws
Return(id, status, data) ==
    [kind |-> "return", id |-> id, status |-> status, data |-> data, err |-> NoErr]

Throw(err) ==
    [kind |-> "throw", id |-> Undefined, status |-> Undefined, data |-> EmptyObject,
     err |-> err]

NoOut ==
    [kind |-> "none", id |-> Undefined, status |-> Undefined, data |-> EmptyObject,
     err |-> NoErr]

\* a method up to its await: done (returned or thrown), or suspended on a request
Done(out) == [await |-> FALSE, out |-> out, req |-> NoReq]

Await(req) == [await |-> TRUE, out |-> NoOut, req |-> req]

YocoPrefix == <<"[Yoco] ">>

EmptyStr == StrV(<<>>)

\* what the host passes: { amount, currency_code, context: { session_id,
\* resource_id } } to initiatePayment, { data, amount } to refundPayment
Input(amount, currency_code, session_id, resource_id) ==
    [amount |-> amount, currency_code |-> currency_code, session_id |-> session_id,
     resource_id |-> resource_id]

NoInput == Input(Undefined, Undefined, Undefined, Undefined)

ZAR == <<"Z", "A", "R">>

---------------------------------------------------------------------------
(* initiatePayment *)

\* `initiate-${sessionId}-${resourceId}-${amountInCents}`
InitiateKey(sessionId, resourceId, amountInCents) ==
    StrV(<<"i", "n", "i", "t", "i", "a", "t", "e", "-">> \o ToStr(sessionId) \o <<"-">>
         \o ToStr(resourceId) \o <<"-">> \o ToStr(amountInCents))

\* a redirect URL is added to the payload when it is configured
WithUrl(payload, opts, name) ==
    IF Truthy(opts[name]) THEN Put(payload, name, opts[name]) ELSE payload

\* checkoutPayload; metadata's members are written "metadata.<member>"
CheckoutPayload(opts, amountInCents, sessionId, resourceId) ==
    LET base == [k \in {"amount", "currency", "metadata.session_id",
                        "metadata.resource_id", "externalId"} |->
                    CASE k = "amount" -> amountInCents
                      [] k = "currency" -> StrV(ZAR)
                      [] k = "metadata.session_id" -> sessionId
                      [] k = "metadata.resource_id" -> resourceId
                      [] OTHER -> sessionId]
    IN WithUrl(WithUrl(WithUrl(base, opts, "successUrl"), opts, "cancelUrl"),
               opts, "failureUrl")

\* initiatePayment's catch block
InitiateCatch(err) ==
    IF err.type = "YocoPaymentError" THEN PlainError(YocoPrefix \o err.message)
    ELSE PlainError(<<"[Yoco] Failed to initiate payment: ">> \o err.message)

MinAmountMessage ==
    <<"Minimum amount is R">> \o ToStr(NumV(MIN_AMOUNT_CENTS \div 100)) \o <<".00">>

CurrencyMessage == <<"Only ZAR currency is supported">>

TypeErrorMessage == <<"Cannot read properties of undefined">>

\* a validation that also turns the minimum itself away
InitiateValidation_minExclusive(input) ==
    LET amountInCents == MathRound(Number(input.amount))
    IN IF LessThan(amountInCents, MIN_AMOUNT_CENTS + 1)
       THEN YocoPaymentError(MinAmountMessage, "API_ERROR", "")
       ELSE IF input.currency_code.t # "string"
       THEN Err("TypeError", TypeErrorMessage, "", "")
       ELSE IF ToUpperCase(input.currency_code.s) # ZAR
       THEN YocoPaymentError(CurrencyMessage, "API_ERROR", "")
       ELSE NoErr

\* the validation at the head of initiatePayment: the error thrown, or NoErr
InitiateValidation(input) ==
    LET amountInCents == MathRound(Number(input.amount))
    IN IF LessThan(amountInCents, MIN_AMOUNT_CENTS)
       THEN YocoPaymentError(MinAmountMessage, "API_ERROR", "")
       ELSE IF input.currency_code.t # "string"
       THEN Err("TypeError", TypeErrorMessage, "", "")
       ELSE IF ToUpperCase(input.currency_code.s) # ZAR
       THEN YocoPaymentError(CurrencyMessage, "API_ERROR", "")
       ELSE NoErr

\* initiatePayment up to its await
initiatePayment_start(input, opts) ==
    LET amountInCents == MathRound(Number(input.amount))
        sessionId == OrElse(input.session_id, EmptyStr)
        resourceId == OrElse(input.resource_id, EmptyStr)
        invalid == InitiateValidation(input)
    IN IF invalid # NoErr THEN Done(Throw(InitiateCatch(invalid)))
       ELSE Await(ApiRequest(opts, "checkouts", <<>>, "POST", TRUE,
                             CheckoutPayload(opts, amountInCents, sessionId, resourceId),
                             InitiateKey(sessionId, resourceId, amountInCents)))

\* initiatePayment from its await on; r is what api gave
initiatePayment_resume(r) ==
    IF r.threw THEN Throw(InitiateCatch(r.err))
    ELSE Return(Get(r.data, "id"), Undefined,
                [k \in {"yocoCheckoutId", "redirectUrl", "status"} |->
                    CASE k = "yocoCheckoutId" -> Get(r.data, "id")
                      [] k = "redirectUrl" -> Get(r.data, "redirectUrl")
                      [] OTHER -> Get(r.data, "status")])

---------------------------------------------------------------------------
(* getPaymentStatus, authorizePayment, capturePayment, retrievePayment *)

Pending == StrV(<<"pending">>)

\* a fetch of the checkout sent as a POST
GetCheckout_post(opts, id) ==
    ApiRequest(opts, "checkout", ToStr(id), "POST", FALSE, EmptyObject, Undefined)

\* GET /checkouts/${id}
GetCheckout(opts, id) ==
    ApiRequest(opts, "checkout", ToStr(id), "GET", FALSE, EmptyObject, Undefined)

\* the earlier variant: no checkout id is an error status
getPaymentStatus_start_error(data, opts) ==
    LET id == Get(data, "yocoCheckoutId")
    IN IF ~Truthy(id) THEN Done(Return(Undefined, StrV(<<"error">>), EmptyObject))
       ELSE Await(GetCheckout(opts, id))

getPaymentStatus_start(data, opts) ==
    LET id == Get(data, "yocoCheckoutId")
    IN IF ~Truthy(id) THEN Done(Return(Undefined, Pending, EmptyObject))
       ELSE Await(GetCheckout(opts, id))

\* a status poll that lets the error of a failed fetch out
getPaymentStatus_resume_rethrows(r) ==
    IF r.threw
    THEN Throw(PlainError(<<"[Yoco] Failed to get payment status: ">> \o r.err.message))
    ELSE Return(Undefined, mapStatus(Get(r.data, "status")), EmptyObject)

getPaymentStatus_resume(r) ==
    IF r.threw THEN Return(Undefined, Pending, EmptyObject)
    ELSE Return(Undefined, mapStatus(Get(r.data, "status")), EmptyObject)

authorizePayment_start(data, opts) ==
    Await(GetCheckout(opts, Get(data, "yocoCheckoutId")))

\* an authorize that takes every fetched checkout for a paid one
authorizePayment_resume_alwaysAuthorized(data, r) ==
    IF r.threw
    THEN Throw(PlainError(<<"[Yoco] Failed to authorize payment: ">> \o r.err.message))
    ELSE Return(Undefined, StrV(<<"authorized">>),
                Put(data, "yocoPaymentId", Get(r.data, "paymentId")))

authorizePayment_resume(data, r) ==
    IF r.threw
    THEN Throw(PlainError(<<"[Yoco] Failed to authorize payment: ">> \o r.err.message))
    ELSE Return(Undefined, mapStatus(Get(r.data, "status")),
                Put(data, "yocoPaymentId", Get(r.data, "paymentId")))

\* new Date().toISOString()
Now == StrV(<<"<now>">>)

capturePayment_start(data, opts) ==
    Await(GetCheckout(opts, Get(data, "yocoCheckoutId")))

\* a capture that does not look at the checkout's status
capturePayment_resume_anyStatus(data, r) ==
    IF r.threw
    THEN Throw(PlainError(<<"[Yoco] Failed to capture payment: ">> \o r.err.message))
    ELSE Return(Undefined, Undefined,
                Put(Put(data, "yocoPaymentId", Get(r.data, "paymentId")),
                    "capturedAt", Now))

capturePayment_resume(data, r) ==
    IF r.threw
    THEN Throw(PlainError(<<"[Yoco] Failed to capture payment: ">> \o r.err.message))
    ELSE IF Get(r.data, "status") # StrV(<<"completed">>)
    THEN Throw(PlainError(<<"[Yoco] Failed to capture payment: ">>
                          \o <<"Payment not completed: ">>
                          \o ToStr(Get(r.data, "status"))))
    ELSE Return(Undefined, Undefined,
                Put(Put(data, "yocoPaymentId", Get(r.data, "paymentId")),
                    "capturedAt", Now))

retrievePayment_start(data, opts) ==
    LET id == Get(data, "yocoCheckoutId")
    IN IF ~Truthy(id) THEN Done(Return(Undefined, Undefined, data))
       ELSE Await(GetCheckout(opts, id))

\* a retrieve that returns the provider's checkout in place of the session data
retrievePayment_resume_replaced(data, r) ==
    IF r.threw
    THEN Throw(PlainError(<<"[Yoco] Failed to retrieve payment: ">> \o r.err.message))
    ELSE Return(Undefined, Undefined,
                [k \in {"yocoStatus", "yocoPaymentId"} |->
                    IF k = "yocoStatus" THEN Get(r.data, "status")
                    ELSE Get(r.data, "paymentId")])

retrievePayment_resume(data, r) ==
    IF r.threw
    THEN Throw(PlainError(<<"[Yoco] Failed to retrieve payment: ">> \o r.err.message))
    ELSE Return(Undefined, Undefined,
                Put(Put(data, "yocoStatus", Get(r.data, "status")),
                    "yocoPaymentId", Get(r.data, "paymentId")))

---------------------------------------------------------------------------
(* refundPayment *)

RefundPrefix == <<"r", "e", "f", "u", "n", "d", "-">>

\* refundAmount ? `refund-${id}-${refundAmount}-${uuid}` : `refund-${id}-full-${uuid}`
RefundKey(id, refundAmount, uuid) ==
    StrV(RefundPrefix \o ToStr(id) \o <<"-">>
         \o (IF Truthy(refundAmount) THEN ToStr(refundAmount)
             ELSE <<"f", "u", "l", "l">>)
         \o <<"-">> \o uuid)

\* input.amount ? Math.round(Number(input.amount)) : undefined
RefundAmount(amount) == IF Truthy(amount) THEN MathRound(Number(amount)) ELSE Undefined

NoCheckoutIdMessage == <<"[Yoco] No checkout ID provided for refund">>

\* a refund that goes to the provider whatever the session data holds
refundPayment_start_unguarded(data, amount, opts, uuid) ==
    LET id == Get(data, "yocoCheckoutId")
        refundAmount == RefundAmount(amount)
    IN Await(ApiRequest(opts, "refund", ToStr(id), "POST", TRUE,
                        IF Truthy(refundAmount)
                        THEN [k \in {"amount"} |-> refundAmount] ELSE EmptyObject,
                        RefundKey(id, refundAmount, uuid)))

\* refundPayment up to its await; uuid is what randomUUID() gives this call
refundPayment_start(data, amount, opts, uuid) ==
    LET id == Get(data, "yocoCheckoutId")
        refundAmount == RefundAmount(amount)
    IN IF ~Truthy(id)
       THEN Done(Throw(YocoPaymentError(NoCheckoutIdMessage, "API_ERROR", "")))
       ELSE Await(ApiRequest(opts, "refund", ToStr(id), "POST", TRUE,
                             IF Truthy(refundAmount)
                             THEN [k \in {"amount"} |-> refundAmount] ELSE EmptyObject,
                             RefundKey(id, refundAmount, uuid)))

\* refundPayment's catch block
RefundCatch(err) ==
    IF err.type = "YocoPaymentError" THEN PlainError(YocoPrefix \o err.message)
    ELSE PlainError(<<"[Yoco] Failed to refund payment: ">> \o err.message)

refundPayment_resume(data, amount, r) ==
    IF r.threw THEN Throw(RefundCatch(r.err))
    ELSE IF Get(r.data, "status") # StrV(<<"successful">>)
    THEN Throw(RefundCatch(YocoPaymentError(ErrorMessage(Get(r.data, "message")),
                                            "PROCESSING_ERROR", "")))
    ELSE Return(Undefined, Undefined,
                Put(Put(Put(data, "yocoRefundId", Get(r.data, "refundId")),
                        "refundedAmount",
                        OrElse(Get(r.data, "amount"), RefundAmount(amount))),
                    "refundedAt", Now))

---------------------------------------------------------------------------
(* updatePayment, deletePayment, cancelPayment *)

\* updatePayment's catch block
UpdateCatch(err) == PlainError(<<"[Yoco] Failed to update payment: ">> \o err.message)

\* the validation at the head of updatePayment: the error thrown, or NoErr
UpdateValidation(input) ==
    LET amountInCents == MathRound(Number(input.amount))
    IN IF LessThan(amountInCents, 200)
       THEN PlainError(<<"Minimum amount is R2.00">>)
       ELSE IF input.currency_code.t # "string"
       THEN Err("TypeError", TypeErrorMessage, "", "")
       ELSE IF ToUpperCase(input.currency_code.s) # ZAR
       THEN PlainError(<<"Only ZAR currency supported">>)
       ELSE NoErr

\* updatePayment up to its await: the context's ids go into the payload as they
\* are, and the request carries no idempotency key
updatePayment_start(input, opts) ==
    LET amountInCents == MathRound(Number(input.amount))
        invalid == UpdateValidation(input)
    IN IF invalid # NoErr THEN Done(Throw(UpdateCatch(invalid)))
       ELSE Await(ApiRequest(opts, "checkouts", <<>>, "POST", TRUE,
                             CheckoutPayload(opts, amountInCents, input.session_id,
                                             input.resource_id),
                             Undefined))

\* updatePayment from its await on: the data it returns is made of the new
\* checkout alone
updatePayment_resume(r) ==
    IF r.threw THEN Throw(UpdateCatch(r.err))
    ELSE Return(Undefined, Undefined,
                [k \in {"yocoCheckoutId", "redirectUrl", "status"} |->
                    CASE k = "yocoCheckoutId" -> Get(r.data, "id")
                      [] k = "redirectUrl" -> Get(r.data, "redirectUrl")
                      [] OTHER -> Get(r.data, "status")])

deletePayment(data) == Return(Undefined, Undefined, data)

cancelPayment(data) == Return(Undefined, Undefined, Put(data, "cancelledAt", Now))

---------------------------------------------------------------------------
(* getWebhookActionAndData *)

\* a YocoWebhookEvent: its type, payload.amount and, when the payload has
\* metadata with a session_id, that id (written "payload.metadata.session_id")
WebhookEvent(type, amount, session_id) ==
    [k \in {"type", "payload.amount", "payload.metadata.session_id"} \
            (IF session_id.t = "undefined" THEN {"payload.metadata.session_id"} ELSE {}) |->
        CASE k = "type" -> type
          [] k = "payload.amount" -> amount
          [] OTHER -> session_id]

\* { session_id: sessionId, amount: event.payload.amount }
WebhookData(event) ==
    [k \in {"session_id", "amount"} |->
        IF k = "session_id"
        THEN OrElse(Get(event, "payload.metadata.session_id"), EmptyStr)
        ELSE Get(event, "payload.amount")]

\* a handler that reports every event as a payment
getWebhookActionAndData_allAuthorized(event) ==
    Return(Undefined, StrV(<<"authorized">>), WebhookData(event))

\* getWebhookActionAndData: the action is written in the outcome's status
getWebhookActionAndData(event) ==
    IF Get(event, "type") = StrV(<<"payment.succeeded">>)
    THEN Return(Undefined, StrV(<<"authorized">>), WebhookData(event))
    ELSE IF Get(event, "type") = StrV(<<"payment.failed">>)
    THEN Return(Undefined, StrV(<<"failed">>), WebhookData(event))
    ELSE Return(Undefined, StrV(<<"not_supported">>), EmptyObject)

---------------------------------------------------------------------------
(* The provider *)

CheckoutId(i) == <<"c", "h", "_">> \o Digits(i)

\* the checkout resource the provider returns for its i-th checkout, c; c also
\* records the session and resource of the request that created it and, for
\* the record only, the adapter method that sent it
CheckoutObject(i, c) ==
    [k \in {"id", "redirectUrl", "status", "amount", "currency", "paymentId"} |->
        CASE k = "id" -> StrV(CheckoutId(i))
          [] k = "redirectUrl" -> StrV(<<"https://c.yoco.com/checkout/">> \o CheckoutId(i))
          [] k = "status" -> StrV(<<c.status>>)
          [] k = "amount" -> NumV(c.amount)
          [] k = "currency" -> StrV(ZAR)
          [] OTHER -> IF c.status = "completed"
                      THEN StrV(<<"p", "_">> \o Digits(i)) ELSE Null]

\* the checkout a path segment names, 0 when there is none
CheckoutAt(id) ==
    IF \E i \in 1..Len(checkouts) : CheckoutId(i) = id
    THEN CHOOSE i \in 1..Len(checkouts) : CheckoutId(i) = id
    ELSE 0

RECURSIVE SumRefunds(_, _)
\* what the first n refunds took from checkout c
SumRefunds(c, n) ==
    IF n = 0 THEN 0
    ELSE SumRefunds(c, n - 1) + (IF refunds[n].checkout = c THEN refunds[n].amount ELSE 0)

Remaining(c) == checkouts[c].amount - SumRefunds(c, Len(refunds))

RefundObject(c, n, amount, status, message) ==
    [k \in {"id", "refundId", "message", "status", "amount"} |->
        CASE k = "id" -> StrV(CheckoutId(c))
          [] k = "refundId" -> StrV(<<"r", "f", "_">> \o Digits(n))
          [] k = "message" -> StrV(<<message>>)
          [] k = "status" -> StrV(<<status>>)
          [] OTHER -> NumV(amount)]

OkResponse(data) == Response(TRUE, TRUE, TRUE, data, NoYocoError)

ErrorResponse(err) == Response(TRUE, FALSE, TRUE, EmptyObject, err)

\* the error bodies the provider answers with
ProviderErrors ==
    {YocoError("card_declined", StrV(<<"Card was declined">>),
               StrV(<<"Your card was declined">>)),
     YocoError("unknown_error", StrV(<<"Something went wrong">>), Undefined)}

NotFound == YocoError("not_found", StrV(<<"Checkout not found">>), Undefined)

InvalidRequest == YocoError("invalid_request", StrV(<<"Invalid request">>), Undefined)

\* the provider has answered a request under this Idempotency-Key before
Replayed(req) == Truthy(req.key) /\ req.key.s \in DOMAIN idem

---------------------------------------------------------------------------
(* The state machine *)

\* an invocation suspended at its await
Invocation(op, input, data, req) ==
    [op |-> op, input |-> input, data |-> data, req |-> req, answered |-> FALSE,
     resp |-> NoResp]

\* a completed invocation: calls is the number of requests it issued
Completed(op, input, data, req, calls, resp, out) ==
    [op |-> op, input |-> input, data |-> data, req |-> req, calls |-> calls,
     resp |-> resp, out |-> out]

NoInvocation == Completed("", NoInput, EmptyObject, NoReq, 0, NoResp, NoOut)

NoCtor == [called |-> FALSE, options |-> NoAdapter, ok |-> FALSE, err |-> NoErr]

T(s) == StrV(s)

KeySamples ==
    {Undefined, T(<<>>), T(<<"i", "n", "v", "a", "l", "i", "d">>),
     T(<<"s", "k", "_", "1">>), T(SkTest \o <<"1">>), T(SkLive \o <<"1">>)}

GoodUrl == T(<<"h", "t", "t", "p", "s", ":", "/", "/", "a", ".", "c", "o", "/", "s">>)

BadUrl == T(<<"n", "o", "t", "-", "a", "-", "u", "r", "l">>)

\* the options the host may configure
OptionSamples ==
    {Options(k, Undefined, Undefined, Undefined, Undefined) :
        k \in KeySamples \ {T(SkLive \o <<"1">>)}}
    \cup {Options(T(SkLive \o <<"1">>), BoolV(TRUE), GoodUrl, Undefined, Undefined),
          Options(T(SkTest \o <<"1">>), Undefined, BadUrl, Undefined, Undefined),
          Options(T(SkTest \o <<"1">>), Undefined, Undefined, GoodUrl, T(<<>>)),
          Options(T(<<"s", "k", "_", "1">>), Undefined, GoodUrl, GoodUrl, GoodUrl)}

AmountSamples == {NumV(100), HalfV(199), NumV(200), T(<<"a", "b", "c">>)}

CurrencySamples == {T(ZAR), T(<<"z", "a", "r">>), T(<<"U", "S", "D">>)}

\* what initiatePayment is called with: every amount with every currency for one
\* session, and a call that names no session and no currency
InitiateInputs ==
    {Input(a, c, T(<<"a">>), T(<<"b">>)) : a \in AmountSamples, c \in CurrencySamples}
    \cup {Input(NumV(200), T(ZAR), Undefined, Undefined),
          Input(NumV(200), Undefined, Undefined, Undefined)}

\* what updatePayment is called with
UpdateInputs ==
    {Input(NumV(200), T(ZAR), T(<<"a">>), T(<<"b">>)),
     Input(NumV(200), T(ZAR), Undefined, Undefined),
     Input(NumV(100), T(ZAR), T(<<"a">>), T(<<"b">>)),
     Input(NumV(200), T(<<"U", "S", "D">>), T(<<"a">>), T(<<"b">>))}

RefundAmountSamples == {Undefined, NumV(0), NumV(100)}

\* the events the provider delivers to the webhook
WebhookEvents ==
    {WebhookEvent(T(<<"payment.succeeded">>), NumV(200), T(<<"s1">>)),
     WebhookEvent(T(<<"payment.succeeded">>), NumV(200), Undefined),
     WebhookEvent(T(<<"payment.failed">>), NumV(200), T(<<"s1">>)),
     WebhookEvent(T(<<"refund.succeeded">>), NumV(200), T(<<"s1">>))}

\* the session data the host holds before the adapter has returned any
SessionSamples ==
    {[k \in {"cart"} |-> T(<<"x">>)], [k \in {"yocoCheckoutId"} |-> T(<<>>)]}

\* a payment the host began earlier: its checkout at the provider, paid, and the
\* session data the host kept for it
PaidCheckout ==
    [status |-> "completed", amount |-> 200, session |-> T(<<"p">>),
     resource |-> T(<<"q">>), by |-> "initiatePayment"]

PaidSession ==
    [k \in {"cart", "yocoCheckoutId"} |->
        IF k = "cart" THEN T(<<"x">>) ELSE T(CheckoutId(1))]

\* the input and the output of a function applied on its own
Fin(fn, a, b, status, err) == [fn |-> fn, a |-> a, b |-> b, status |-> status, err |-> err]

NoFin == Fin("", NoInput, NoInput, Undefined, NoYocoError)

Fout(keyA, keyB, status, err) ==
    [done |-> TRUE, keyA |-> keyA, keyB |-> keyB, status |-> status, err |-> err,
     stepA |-> Done(NoOut), stepB |-> Done(NoOut)]

NoFout == [done |-> FALSE, keyA |-> Undefined, keyB |-> Undefined, status |-> Undefined,
           err |-> NoErr, stepA |-> Done(NoOut), stepB |-> Done(NoOut)]

\* the output of two methods run to their await on the same input
FoutSteps(stepA, stepB) ==
    [Fout(Undefined, Undefined, Undefined, NoErr) EXCEPT !.stepA = stepA, !.stepB = stepB]

Init ==
    /\ options_ = NoAdapter
    /\ ctor = NoCtor
    /\ \/ sessionData \in SessionSamples /\ checkouts = <<>>
       \/ sessionData = PaidSession /\ checkouts = <<PaidCheckout>>
    /\ inflight = <<>>
    /\ last = NoInvocation
    /\ refunds = <<>>
    /\ idem = [k \in {} |-> NoResp]
    /\ nInvoked = 0
    /\ fin = NoFin
    /\ fout = NoFout

adapterVars == <<options_, ctor>>

providerVars == <<checkouts, refunds, idem>>

pureVars == <<fin, fout>>

\* new YocoPaymentService(container, o)
Construct(o) ==
    /\ options_ = NoAdapter
    /\ LET c == Constructor(o)
       IN /\ options_' = c.options
          /\ ctor' = [called |-> TRUE, options |-> o, ok |-> c.ok, err |-> c.err]
    /\ UNCHANGED <<sessionData, inflight, last, nInvoked, providerVars, pureVars>>

CanInvoke == options_ # NoAdapter /\ nInvoked < MaxInvocations

\* the host's use of what a method returned: it stores the returned data
Stored(op, out) ==
    IF out.kind = "return" /\ op \notin {"getPaymentStatus", "getWebhookActionAndData"}
    THEN out.data ELSE sessionData

\* a method runs to its await (and is suspended) or to its end
Begin(op, input, step) ==
    /\ nInvoked' = nInvoked + 1
    /\ IF step.await
       THEN /\ Len(inflight) < MaxInFlight
            /\ inflight' = Append(inflight, Invocation(op, input, sessionData, step.req))
            /\ UNCHANGED <<last, sessionData>>
       ELSE /\ last' = Completed(op, input, sessionData, NoReq, 0, NoResp, step.out)
            /\ sessionData' = Stored(op, step.out)
            /\ UNCHANGED inflight
    /\ UNCHANGED <<adapterVars, providerVars, pureVars>>

InitiatePayment(input) ==
    /\ CanInvoke
    /\ Begin("initiatePayment", input, initiatePayment_start(input, options_))

GetPaymentStatus ==
    /\ CanInvoke
    /\ Begin("getPaymentStatus", NoInput, getPaymentStatus_start(sessionData, options_))

AuthorizePayment ==
    /\ CanInvoke
    /\ Begin("authorizePayment", NoInput, authorizePayment_start(sessionData, options_))

CapturePayment ==
    /\ CanInvoke
    /\ Begin("capturePayment", NoInput, capturePayment_start(sessionData, options_))

RetrievePayment ==
    /\ CanInvoke
    /\ Begin("retrievePayment", NoInput, retrievePayment_start(sessionData, options_))

\* randomUUID(): a value no other call has drawn
RandomUUID == <<"u">> \o Digits(nInvoked + 1)

RefundPayment(amount) ==
    /\ CanInvoke
    /\ Begin("refundPayment", Input(amount, Undefined, Undefined, Undefined),
             refundPayment_start(sessionData, amount, options_, RandomUUID))

UpdatePayment(input) ==
    /\ CanInvoke
    /\ Begin("updatePayment", input, updatePayment_start(input, options_))

DeletePayment ==
    /\ CanInvoke
    /\ Begin("deletePayment", NoInput, Done(deletePayment(sessionData)))

CancelPayment ==
    /\ CanInvoke
    /\ Begin("cancelPayment", NoInput, Done(cancelPayment(sessionData)))

\* the host hands a delivered event to the adapter; the completed invocation
\* records the event as the data it was given
GetWebhookActionAndData(event) ==
    /\ CanInvoke
    /\ nInvoked' = nInvoked + 1
    /\ last' = Completed("getWebhookActionAndData", NoInput, event, NoReq, 0, NoResp,
                         getWebhookActionAndData(event))
    /\ UNCHANGED <<sessionData, inflight, adapterVars, providerVars, pureVars>>

Unanswered(i) == i \in 1..Len(inflight) /\ ~inflight[i].answered

Answer(i, resp) ==
    inflight' = [inflight EXCEPT ![i].answered = TRUE, ![i].resp = resp]

\* the provider remembers its answer under the request's Idempotency-Key
Remember(req, resp) ==
    IF Truthy(req.key)
    THEN [k \in (DOMAIN idem) \cup {req.key.s} |-> IF k = req.key.s THEN resp ELSE idem[k]]
    ELSE idem

\* POST /checkouts
ProviderCreateCheckout(i) ==
    /\ Unanswered(i)
    /\ inflight[i].req.target = "checkouts"
    /\ LET req == inflight[i].req
           amount == Get(req.body, "amount")
           c == [status |-> "created", amount |-> amount.n,
                 session |-> Get(req.body, "metadata.session_id"),
                 resource |-> Get(req.body, "metadata.resource_id"),
                 by |-> inflight[i].op]
           resp == OkResponse(CheckoutObject(Len(checkouts) + 1, c))
       IN IF Replayed(req)
          THEN /\ Answer(i, idem[req.key.s])
               /\ UNCHANGED providerVars
          ELSE IF amount.t # "number" \/ amount.half \/ amount.n <= 0
          THEN /\ Answer(i, ErrorResponse(InvalidRequest))
               /\ UNCHANGED providerVars
          ELSE /\ Len(checkouts) < MaxCheckouts
               /\ checkouts' = Append(checkouts, c)
               /\ idem' = Remember(req, resp)
               /\ Answer(i, resp)
               /\ UNCHANGED refunds
    /\ UNCHANGED <<adapterVars, sessionData, last, nInvoked, pureVars>>

\* GET /checkouts/<id>
ProviderGetCheckout(i) ==
    /\ Unanswered(i)
    /\ inflight[i].req.target = "checkout"
    /\ LET c == CheckoutAt(inflight[i].req.id)
       IN Answer(i, IF c = 0 THEN ErrorResponse(NotFound)
                    ELSE OkResponse(CheckoutObject(c, checkouts[c])))
    /\ UNCHANGED <<adapterVars, sessionData, last, nInvoked, providerVars, pureVars>>

\* the refund resource as the provider sends it: YocoRefund has no amount, and
\* the adapter reads one, so the provider may or may not send it
RefundBody(refund, withAmount) ==
    IF withAmount THEN refund
    ELSE [k \in (DOMAIN refund) \ {"amount"} |-> refund[k]]

\* POST /checkouts/<id>/refund: the whole remaining amount when the body names none
ProviderRefund(i, withAmount) ==
    /\ Unanswered(i)
    /\ inflight[i].req.target = "refund"
    /\ LET req == inflight[i].req
           c == CheckoutAt(req.id)
           amount == IF "amount" \in DOMAIN req.body THEN req.body["amount"].n
                     ELSE Remaining(c)
           n == Len(refunds) + 1
           done == OkResponse(RefundBody(
                       RefundObject(c, n, amount, "successful", "Refund successful"),
                       withAmount))
           failed == OkResponse(RefundBody(
                         RefundObject(c, n, 0, "failed", "Refund failed"), withAmount))
       IN IF Replayed(req)
          THEN /\ Answer(i, idem[req.key.s])
               /\ UNCHANGED providerVars
          ELSE IF c = 0
          THEN /\ Answer(i, ErrorResponse(NotFound))
               /\ UNCHANGED providerVars
          ELSE IF checkouts[c].status # "completed" \/ amount <= 0 \/ amount > Remaining(c)
          THEN /\ Answer(i, failed)
               /\ idem' = Remember(req, failed)
               /\ UNCHANGED <<checkouts, refunds>>
          ELSE /\ refunds' = Append(refunds, [checkout |-> c, amount |-> amount,
                                              requested |-> Get(req.body, "amount"),
                                              key |-> req.key])
               /\ idem' = Remember(req, done)
               /\ Answer(i, done)
               /\ UNCHANGED checkouts
    /\ UNCHANGED <<adapterVars, sessionData, last, nInvoked, pureVars>>

\* the provider refuses a request with a non-success status and an error body
ProviderReject(i, e) ==
    /\ Unanswered(i)
    /\ Answer(i, ErrorResponse(e))
    /\ UNCHANGED <<adapterVars, sessionData, last, nInvoked, providerVars, pureVars>>

\* an answer whose body is not JSON (a gateway's error page), of either status
UnparseableBody(i, ok) ==
    /\ Unanswered(i)
    /\ Answer(i, Response(TRUE, ok, FALSE, EmptyObject, NoYocoError))
    /\ UNCHANGED <<adapterVars, sessionData, last, nInvoked, providerVars, pureVars>>

\* fetch rejects and the request never reached the provider
FetchFails(i) ==
    /\ Unanswered(i)
    /\ Answer(i, NoResp)
    /\ UNCHANGED <<adapterVars, sessionData, last, nInvoked, providerVars, pureVars>>

\* the provider has acted on the request, and its answer never arrives (a timeout)
ResponseLost(i) ==
    /\ i \in 1..Len(inflight)
    /\ inflight[i].answered
    /\ inflight[i].resp.arrived
    /\ Answer(i, NoResp)
    /\ UNCHANGED <<adapterVars, sessionData, last, nInvoked, providerVars, pureVars>>

\* the customer and the provider move a checkout through its lifecycle:
\* created -> pending -> completed | cancelled | expired
ProviderAdvance(c, status) ==
    /\ c \in 1..Len(checkouts)
    /\ \/ checkouts[c].status = "created" /\ status = "pending"
       \/ checkouts[c].status = "pending" /\ status \in {"completed", "cancelled", "expired"}
    /\ checkouts' = [checkouts EXCEPT ![c].status = status]
    /\ UNCHANGED <<adapterVars, sessionData, inflight, last, nInvoked, refunds, idem,
                   pureVars>>

\* a method from its await on, given what api returned or threw
ResumeOutcome(inv, r) ==
    CASE inv.op = "initiatePayment" -> initiatePayment_resume(r)
      [] inv.op = "updatePayment" -> updatePayment_resume(r)
      [] inv.op = "getPaymentStatus" -> getPaymentStatus_resume(r)
      [] inv.op = "authorizePayment" -> authorizePayment_resume(inv.data, r)
      [] inv.op = "capturePayment" -> capturePayment_resume(inv.data, r)
      [] inv.op = "retrievePayment" -> retrievePayment_resume(inv.data, r)
      [] OTHER -> refundPayment_resume(inv.data, inv.input.amount, r)

Remove(s, i) == SubSeq(s, 1, i - 1) \o SubSeq(s, i + 1, Len(s))

\* the await completes: api returns or throws and the method runs to its end
Resume(i) ==
    /\ i \in 1..Len(inflight)
    /\ inflight[i].answered
    /\ LET inv == inflight[i]
           r == Api(inv.resp)
           out == ResumeOutcome(inv, r)
       IN /\ last' = Completed(inv.op, inv.input, inv.data, inv.req, r.fetches, inv.resp,
                               out)
          /\ sessionData' = Stored(inv.op, out)
    /\ inflight' = Remove(inflight, i)
    /\ UNCHANGED <<adapterVars, nInvoked, providerVars, pureVars>>

Statuses == {"created", "pending", "completed", "cancelled", "expired"}

Next ==
    \/ \E o \in OptionSamples : Construct(o)
    \/ \E input \in InitiateInputs : InitiatePayment(input)
    \/ \E input \in UpdateInputs : UpdatePayment(input)
    \/ DeletePayment
    \/ CancelPayment
    \/ \E event \in WebhookEvents : GetWebhookActionAndData(event)
    \/ GetPaymentStatus
    \/ AuthorizePayment
    \/ CapturePayment
    \/ RetrievePayment
    \/ \E amount \in RefundAmountSamples : RefundPayment(amount)
    \/ \E i \in 1..MaxInFlight : ProviderCreateCheckout(i)
    \/ \E i \in 1..MaxInFlight : ProviderGetCheckout(i)
    \/ \E i \in 1..MaxInFlight, withAmount \in BOOLEAN : ProviderRefund(i, withAmount)
    \/ \E i \in 1..MaxInFlight, e \in ProviderErrors : ProviderReject(i, e)
    \/ \E i \in 1..MaxInFlight, ok \in BOOLEAN : UnparseableBody(i, ok)
    \/ \E i \in 1..MaxInFlight : FetchFails(i)
    \/ \E i \in 1..MaxInFlight : ResponseLost(i)
    \/ \E c \in 1..MaxCheckouts, status \in Statuses : ProviderAdvance(c, status)
    \/ \E i \in 1..MaxInFlight : Resume(i)

Spec == Init /\ [][Next]_vars

---------------------------------------------------------------------------
(* The adapter's functions on their own: the idempotency key initiatePayment  *)
(* sends, mapStatus, and the error api throws for a provider error body       *)

TestOptions == Options(T(SkTest \o <<"1">>), Undefined, Undefined, Undefined, Undefined)

KeySessionIds == {Undefined, T(<<>>), T(<<"a">>), T(<<"a", "-", "b">>)}

KeyResourceIds == {Undefined, T(<<>>), T(<<"c">>), T(<<"b", "-", "c">>)}

KeyAmounts == {NumV(200), NumV(201)}

KeyInputs ==
    {Input(a, T(ZAR), s, r) : a \in KeyAmounts, s \in KeySessionIds, r \in KeyResourceIds}

StatusInputs ==
    {T(<<"created">>), T(<<"pending">>), T(<<"completed">>), T(<<"cancelled">>),
     T(<<"expired">>), T(<<"refunded">>), T(<<>>), T(<<"constructor">>),
     T(<<"toString">>)}

ErrorCodeSamples == (DOMAIN ErrorCodeTable) \cup {"unknown_error", "not_found", ""}

YocoErrorInputs ==
    {YocoError(c, T(<<"Card was declined">>), d) :
        c \in ErrorCodeSamples, d \in {Undefined, T(<<"Your card was declined">>)}}

\* the inputs initiatePayment and updatePayment are compared on
CreateInputs == InitiateInputs \cup KeyInputs

\* every status the provider returns for a checkout
ProviderStatusInputs == {T(<<s>>) : s \in Statuses}

\* the ways a call of api can end: the answers the provider (or a gateway in
\* front of it) gives and the failure of the transport
ApiOutcomes ==
    {"ok", "error status", "error status, not JSON", "ok status, not JSON", "fetch failed"}

\* the response api meets for an outcome; e is the error body of an error status
ApiResponse(outcome, e) ==
    CASE outcome = "ok" -> OkResponse(CheckoutObject(1, PaidCheckout))
      [] outcome = "error status" -> ErrorResponse(e)
      [] outcome = "error status, not JSON" ->
             Response(TRUE, FALSE, FALSE, EmptyObject, NoYocoError)
      [] outcome = "ok status, not JSON" ->
             Response(TRUE, TRUE, FALSE, EmptyObject, NoYocoError)
      [] OTHER -> NoResp

PureInit ==
    /\ options_ = TestOptions
    /\ ctor = [called |-> TRUE, options |-> TestOptions, ok |-> TRUE, err |-> NoErr]
    /\ sessionData = EmptyObject
    /\ inflight = <<>>
    /\ last = NoInvocation
    /\ checkouts = <<>>
    /\ refunds = <<>>
    /\ idem = [k \in {} |-> NoResp]
    /\ nInvoked = 0
    /\ fout = NoFout
    /\ \/ \E a \in KeyInputs, b \in KeyInputs :
              fin = Fin("idempotencyKey", a, b, Undefined, NoYocoError)
       \/ \E s \in StatusInputs : fin = Fin("mapStatus", NoInput, NoInput, s, NoYocoError)
       \/ \E e \in YocoErrorInputs : fin = Fin("fromYocoError", NoInput, NoInput, Undefined, e)
       \/ \E a \in CreateInputs : fin = Fin("createRequest", a, a, Undefined, NoYocoError)
       \/ \E s \in ProviderStatusInputs :
              fin = Fin("hostStatus", NoInput, NoInput, s, NoYocoError)
       \/ \E o \in ApiOutcomes, e \in YocoErrorInputs :
              fin = Fin("api", NoInput, NoInput, T(<<o>>),
                        IF o = "error status" THEN e ELSE NoYocoError)

mainVars ==
    <<options_, ctor, sessionData, inflight, last, checkouts, refunds, idem, nInvoked>>

\* the Idempotency-Key of the request initiatePayment sends for each of two inputs
ApplyIdempotencyKey ==
    /\ fin.fn = "idempotencyKey"
    /\ ~fout.done
    /\ fout' = Fout(initiatePayment_start(fin.a, options_).req.key,
                    initiatePayment_start(fin.b, options_).req.key, Undefined, NoErr)
    /\ UNCHANGED <<mainVars, fin>>

ApplyMapStatus ==
    /\ fin.fn = "mapStatus"
    /\ ~fout.done
    /\ fout' = Fout(Undefined, Undefined, mapStatus(fin.status), NoErr)
    /\ UNCHANGED <<mainVars, fin>>

\* what api throws when the provider answers with a non-success status and an
\* error body
ApplyFromYocoError ==
    /\ fin.fn = "fromYocoError"
    /\ ~fout.done
    /\ fout' = Fout(Undefined, Undefined, Undefined, Api(ErrorResponse(fin.err)).err)
    /\ UNCHANGED <<mainVars, fin>>

\* initiatePayment and updatePayment, each run to its await on the same input
ApplyCreateRequest ==
    /\ fin.fn = "createRequest"
    /\ ~fout.done
    /\ fout' = FoutSteps(initiatePayment_start(fin.a, options_),
                         updatePayment_start(fin.a, options_))
    /\ UNCHANGED <<mainVars, fin>>

\* getPaymentStatus and authorizePayment, each from its await on, given the same
\* fetched checkout
ApplyHostStatus ==
    /\ fin.fn = "hostStatus"
    /\ ~fout.done
    /\ LET checkout == CheckoutObject(1, [PaidCheckout EXCEPT !.status = fin.status.s[1]])
           r == Api(OkResponse(checkout))
       IN fout' = FoutSteps(Done(getPaymentStatus_resume(r)),
                            Done(authorizePayment_resume(PaidSession, r)))
    /\ UNCHANGED <<mainVars, fin>>

\* api from its fetch on, for each way the call can end; the output's status
\* tells whether api threw
ApplyApi ==
    /\ fin.fn = "api"
    /\ ~fout.done
    /\ LET r == Api(ApiResponse(fin.status.s[1], fin.err))
       IN fout' = Fout(Undefined, Undefined, BoolV(r.threw), r.err)
    /\ UNCHANGED <<mainVars, fin>>

PureNext ==
    \/ ApplyApi
    \/ ApplyIdempotencyKey
    \/ ApplyMapStatus
    \/ ApplyFromYocoError
    \/ ApplyCreateRequest
    \/ ApplyHostStatus

PureSpec == PureInit /\ [][PureNext]_vars

---------------------------------------------------------------------------
(* Claims *)

\* the invocation that completed last was of this method
LastWas(op) == last.op = op

\* the call's provider answered it successfully
AnsweredOk(resp) == resp.arrived /\ resp.ok /\ resp.parses

ThrewMessage(m) == last.out.kind = "throw" /\ last.out.err.message = m

MinimumAmountError == ThrewMessage(<<"[Yoco] ", "Minimum amount is R", "2", ".00">>)

CurrencyError == ThrewMessage(<<"[Yoco] ", "Only ZAR currency is supported">>)

\* a numeric amount (a number, or its decimal text), as twice its value
TwiceAmount(a) == LET x == Number(a) IN 2 * x.n + (IF x.half THEN 1 ELSE 0)

IsNumeric(a) == Number(a).t = "number"

\* the amount's value to the nearest integer, a half upwards
RoundedAmount(a) == (TwiceAmount(a) + 1) \div 2

ZarInAnyCase(c) ==
    /\ c.t = "string"
    /\ Len(c.s) = 3
    /\ c.s[1] \in {"Z", "z"}
    /\ c.s[2] \in {"A", "a"}
    /\ c.s[3] \in {"R", "r"}

\* C1 as stated: initiatePayment fails with the minimum-amount error for every
\* amount below 200, fails with the currency error for every amount of at least
\* 200 whose currency is not "ZAR", and succeeds for 200 "ZAR" when the provider
\* answers the create call successfully.  (Stated here for whole amounts, which
\* are amounts under every reading of the claim.)
C1_AsStated ==
    LastWas("initiatePayment") /\ IsNumeric(last.input.amount)
    /\ TwiceAmount(last.input.amount) % 2 = 0 =>
        /\ TwiceAmount(last.input.amount) < 400 => MinimumAmountError
        /\ (TwiceAmount(last.input.amount) >= 400 /\ last.input.currency_code.t = "string"
            /\ last.input.currency_code.s # <<"Z", "A", "R">>) => CurrencyError
        /\ (last.input.amount = NumV(200) /\ last.input.currency_code = StrV(<<"Z", "A", "R">>)
            /\ AnsweredOk(last.resp)) => last.out.kind = "return"

\* C1, amended: initiatePayment fails with the minimum-amount error for every
\* amount that rounds (to the nearest integer, a half upwards) below 200, fails
\* with the currency error for every amount that rounds to at least 200 whose
\* currency string is not "ZAR" in any letter case, and succeeds, returning the
\* provider's checkout id, for 200 "ZAR" when the provider answers the create
\* call successfully.
C1_InitiateValidation ==
    LastWas("initiatePayment") /\ IsNumeric(last.input.amount) =>
        /\ RoundedAmount(last.input.amount) < 200 => MinimumAmountError /\ last.calls = 0
        /\ (RoundedAmount(last.input.amount) >= 200 /\ last.input.currency_code.t = "string"
            /\ ~ZarInAnyCase(last.input.currency_code)) => CurrencyError /\ last.calls = 0
        /\ (last.input.amount = NumV(200) /\ last.input.currency_code = StrV(<<"Z", "A", "R">>)
            /\ AnsweredOk(last.resp)) =>
               /\ last.out.kind = "return"
               /\ last.out.data["yocoCheckoutId"] = last.resp.data["id"]

\* an initiatePayment of 200 "ZAR" that the provider answered with a checkout
C1_Witness ==
    /\ LastWas("initiatePayment")
    /\ last.input.amount = NumV(200)
    /\ last.input.currency_code = StrV(<<"Z", "A", "R">>)
    /\ AnsweredOk(last.resp)
    /\ last.out.kind = "return"

\* the triple the key is derived from: initiatePayment's sessionId, resourceId
\* and amountInCents
KeyTriple(input) ==
    <<IF input.session_id.t = "string" THEN input.session_id.s ELSE <<>>,
      IF input.resource_id.t = "string" THEN input.resource_id.s ELSE <<>>,
      RoundedAmount(input.amount)>>

KeysDerived == fin.fn = "idempotencyKey" /\ fout.done

\* C2 as stated: the idempotency key initiatePayment sends depends only on
\* (session id, resource id, amount in cents): identical triples give the same
\* key, and two triples that differ in a component give different keys, whatever
\* strings the ids are.
C2_KeyInjective ==
    KeysDerived =>
        /\ KeyTriple(fin.a) = KeyTriple(fin.b) => fout.keyA = fout.keyB
        /\ KeyTriple(fin.a) # KeyTriple(fin.b) => fout.keyA # fout.keyB

\* the checkouts a call of initiatePayment created
InitiatedCheckouts == {c \in 1..Len(checkouts) : checkouts[c].by = "initiatePayment"}

\* C3: against a provider that creates at most one checkout for an
\* Idempotency-Key, initiatePayment calls with identical (session id, resource
\* id, amount), however many and however interleaved, create at most one
\* checkout: no two checkouts come from the same triple.
C3_NoDuplicateCheckout ==
    \A c, d \in InitiatedCheckouts :
        (/\ checkouts[c].session = checkouts[d].session
         /\ checkouts[c].resource = checkouts[d].resource
         /\ checkouts[c].amount = checkouts[d].amount) => c = d

\* two initiatePayment calls with the same triple, one returned and one answered,
\* both given the one checkout the provider created
C3_Witness ==
    /\ LastWas("initiatePayment")
    /\ last.out.kind = "return"
    /\ Len(checkouts) = 1
    /\ \E i \in 1..Len(inflight) :
          /\ inflight[i].op = "initiatePayment"
          /\ KeyTriple(inflight[i].input) = KeyTriple(last.input)
          /\ inflight[i].answered
          /\ AnsweredOk(inflight[i].resp)
          /\ inflight[i].resp.data["id"] = last.out.id

\* C4 as stated: against a provider that deduplicates by Idempotency-Key, a
\* repeated refundPayment for the same checkout and the same amount (a retry
\* after a timeout, or a simultaneous second attempt) produces no second refund.
C4_RetryRefundsOnce ==
    \A m, n \in 1..Len(refunds) :
        (/\ refunds[m].checkout = refunds[n].checkout
         /\ refunds[m].requested = refunds[n].requested) => m = n

\* the redirect URLs an options object configures
ConfiguredUrls(o) ==
    {u \in {o.successUrl, o.cancelUrl, o.failureUrl} : u.t # "undefined"}

\* the options the claim says construct an adapter
ValidOptions(o) ==
    /\ o.secretKey.t = "string"
    /\ Len(o.secretKey.s) >= 8
    /\ \/ SubSeq(o.secretKey.s, 1, 8) = <<"s", "k", "_", "t", "e", "s", "t", "_">>
       \/ SubSeq(o.secretKey.s, 1, 8) = <<"s", "k", "_", "l", "i", "v", "e", "_">>
    /\ \A u \in ConfiguredUrls(o) : u.t = "string" /\ IsUrl(u.s)

C5_ConstructionDecided ==
    ctor.called =>
        /\ ctor.ok <=> ValidOptions(ctor.options)
        /\ ctor.ok => options_ = ctor.options
        /\ ~ctor.ok =>
              /\ options_ = NoAdapter
              /\ ctor.err.message[1] = "[Yoco] Configuration validation failed: "
              /\ inflight = <<>> /\ last = NoInvocation

NoCheckoutId(data) ==
    \/ "yocoCheckoutId" \notin DOMAIN data
    \/ data["yocoCheckoutId"] = StrV(<<>>)

\* C6: getPaymentStatus called with session data that holds no checkout id
\* returns the pending status and issues no external call.
C6_StatusWithoutCheckout ==
    /\ (LastWas("getPaymentStatus") /\ NoCheckoutId(last.data)) =>
          /\ last.out.kind = "return"
          /\ last.out.status = StrV(<<"pending">>)
          /\ last.calls = 0
          /\ last.req.method = ""
    /\ \A i \in 1..Len(inflight) :
          inflight[i].op = "getPaymentStatus" => ~NoCheckoutId(inflight[i].data)

C6_Witness ==
    /\ LastWas("getPaymentStatus")
    /\ NoCheckoutId(last.data)
    /\ last.out.status = StrV(<<"pending">>)

\* C7: refundPayment called with session data that holds no checkout id fails,
\* and fails before any external call: no refund request of that invocation
\* is ever sent.
C7_RefundWithoutCheckout ==
    /\ (LastWas("refundPayment") /\ NoCheckoutId(last.data)) =>
          /\ last.out.kind = "throw"
          /\ last.calls = 0
          /\ last.req.method = ""
    /\ \A i \in 1..Len(inflight) :
          inflight[i].op = "refundPayment" => ~NoCheckoutId(inflight[i].data)

C7_Witness ==
    /\ LastWas("refundPayment")
    /\ NoCheckoutId(last.data)
    /\ last.out.kind = "throw"

StatusMapped == fin.fn = "mapStatus" /\ fout.done

\* C8 as stated: mapStatus maps completed to authorized, cancelled and expired to
\* canceled, and every other string to pending.
C8_MapStatusTable ==
    StatusMapped =>
        fout.status =
            CASE fin.status.s = <<"completed">> -> StrV(<<"authorized">>)
              [] fin.status.s = <<"cancelled">> -> StrV(<<"canceled">>)
              [] fin.status.s = <<"expired">> -> StrV(<<"canceled">>)
              [] OTHER -> StrV(<<"pending">>)

ErrorMapped == fin.fn = "fromYocoError" /\ fout.done

\* C9: the error made from a provider error body is the adapter's error, with
\* the mapped code for a recognised errorCode (card_declined gives
\* CARD_DECLINED), API_ERROR for every other errorCode, and displayMessage as
\* its message when present, errorMessage otherwise.
C9_FromYocoError ==
    ErrorMapped =>
        /\ fout.err.type = "YocoPaymentError"
        /\ fin.err.errorCode = "card_declined" => fout.err.code = "CARD_DECLINED"
        /\ fin.err.errorCode \in DOMAIN ErrorCodeTable =>
              fout.err.code = ErrorCodeTable[fin.err.errorCode]
        /\ fin.err.errorCode \notin DOMAIN ErrorCodeTable => fout.err.code = "API_ERROR"
        /\ fout.err.message =
              IF fin.err.displayMessage.t = "string" THEN fin.err.displayMessage.s
              ELSE fin.err.errorMessage.s

\* card_declined with a displayMessage, mapped
C9_Witness ==
    /\ ErrorMapped
    /\ fin.err.errorCode = "card_declined"
    /\ fin.err.displayMessage.t = "string"
    /\ fout.err.code = "CARD_DECLINED"
    /\ fout.err.message = <<"Your card was declined">>

\* the external call of the last invocation failed
CallFailed == last.calls = 1 /\ ~AnsweredOk(last.resp)

\* C10 as stated: when the external call of initiatePayment, authorizePayment,
\* capturePayment, refundPayment or retrievePayment fails, the error the method
\* surfaces is the adapter's error type and carries the provider error code and
\* the original cause.
C10_SurfacedError ==
    (/\ last.op \in {"initiatePayment", "authorizePayment", "capturePayment",
                     "refundPayment", "retrievePayment"}
     /\ CallFailed) =>
        /\ last.out.kind = "throw"
        /\ last.out.err.type = "YocoPaymentError"
        /\ last.out.err.code # ""
        /\ last.out.err.cause # ""

\* the operations that are given session data and return session data
SessionOps ==
    {"updatePayment", "authorizePayment", "capturePayment", "refundPayment",
     "cancelPayment", "retrievePayment", "deletePayment"}

\* the fields of the session data the adapter sets
ProviderFields ==
    {"yocoCheckoutId", "redirectUrl", "status", "yocoPaymentId", "yocoStatus",
     "capturedAt", "yocoRefundId", "refundedAmount", "refundedAt", "cancelledAt"}

\* the returned map keeps every member of the given one
KeepsData(given, returned) ==
    \A k \in DOMAIN given :
        /\ k \in DOMAIN returned
        /\ k \notin ProviderFields => returned[k] = given[k]

\* C11 as stated: every operation that is given session data and returns session
\* data (updatePayment, authorizePayment, capturePayment, refundPayment,
\* cancelPayment, retrievePayment, deletePayment) returns a map that contains
\* every key of the session data it was given, with the same value unless the
\* key is a provider field the operation sets.
C11_KeepsSessionData ==
    (last.op \in SessionOps /\ last.out.kind = "return") =>
        KeepsData(last.data, last.out.data)

\* C12: every adapter operation issues at most one outbound HTTP call per
\* invocation, whatever the outcome of that call: a completed invocation has
\* called fetch once for the one request it built, or not at all when it built
\* none, and a failed call was not sent again.
C12_OneCallPerInvocation ==
    last.op # "" =>
        /\ last.calls <= 1
        /\ last.calls = 0 <=> last.req = NoReq
        /\ CallFailed => last.calls = 1

\* an invocation whose one call failed and that ended there
C12_Witness ==
    /\ last.op = "authorizePayment"
    /\ CallFailed
    /\ last.out.kind = "throw"

\* the checkout status the provider answered the last invocation with
FetchedStatus == Get(last.resp.data, "status")

\* C13: capturePayment fetches the checkout (one GET of it) and succeeds only if
\* the fetched status is "completed"; with any other fetched status, and when
\* the fetch fails, it throws; on success the returned session data carries the
\* checkout's payment id and a capture timestamp.
C13_CaptureOnlyCompleted ==
    LastWas("capturePayment") =>
        /\ last.calls = 1
        /\ last.req.method = "GET" /\ last.req.target = "checkout"
        /\ last.out.kind \in {"return", "throw"}
        /\ last.out.kind = "return" <=>
              (AnsweredOk(last.resp) /\ FetchedStatus = StrV(<<"completed">>))
        /\ last.out.kind = "return" =>
              /\ last.out.data["yocoPaymentId"] = last.resp.data["paymentId"]
              /\ last.out.data["capturedAt"] = Now

\* a capture of a completed checkout, carrying its payment id
C13_Witness ==
    /\ LastWas("capturePayment")
    /\ last.out.kind = "return"
    /\ FetchedStatus = StrV(<<"completed">>)
    /\ last.out.data["yocoPaymentId"].t = "string"

\* a capture of a checkout that is not completed, turned away
C13_WitnessRefused ==
    /\ LastWas("capturePayment")
    /\ AnsweredOk(last.resp)
    /\ FetchedStatus = StrV(<<"pending">>)
    /\ last.out.kind = "throw"

\* the provider answered the last refundPayment with a refund resource
RefundAnswered == LastWas("refundPayment") /\ last.calls = 1 /\ AnsweredOk(last.resp)

\* C14 as stated: refundPayment fails whenever the refund response's status is not
\* "successful", with an error whose message is the provider's message (after
\* the adapter's prefix); on a successful response, of a partial or of a full
\* refund, the returned session data carries the refund id, the refunded amount
\* (a number) and a refund timestamp.
C14_RefundOutcome ==
    RefundAnswered =>
        /\ FetchedStatus # StrV(<<"successful">>) =>
              /\ last.out.kind = "throw"
              /\ last.out.err.message = YocoPrefix \o ToStr(Get(last.resp.data, "message"))
        /\ FetchedStatus = StrV(<<"successful">>) =>
              /\ last.out.kind = "return"
              /\ last.out.data["yocoRefundId"] = last.resp.data["refundId"]
              /\ last.out.data["refundedAmount"].t = "number"
              /\ last.out.data["refundedAt"] = Now

\* the event the last getWebhookActionAndData was given
WebhookHandled == LastWas("getWebhookActionAndData")

\* the action and data the claim gives an event
WebhookExpected(event) ==
    LET data == [k \in {"session_id", "amount"} |->
                    IF k = "session_id"
                    THEN (IF "payload.metadata.session_id" \in DOMAIN event
                          THEN event["payload.metadata.session_id"] ELSE StrV(<<>>))
                    ELSE event["payload.amount"]]
    IN CASE event["type"] = StrV(<<"payment.succeeded">>) ->
                <<StrV(<<"authorized">>), data>>
         [] event["type"] = StrV(<<"payment.failed">>) -> <<StrV(<<"failed">>), data>>
         [] OTHER -> <<StrV(<<"not_supported">>), EmptyObject>>

\* C15: for a delivered YocoWebhookEvent (a type, and a payload with an amount
\* and optional metadata) getWebhookActionAndData decides its action from the
\* event type alone:
\* payment.succeeded gives "authorized" and payment.failed gives "failed", both
\* with the session id of the event's metadata (empty when there is none) and
\* the event's amount; every other type gives "not_supported"; the result is
\* a function of the delivered event, no external call is made and neither the
\* session data nor the provider is touched.
C15_WebhookAction ==
    /\ WebhookHandled =>
          /\ last.out.kind = "return"
          /\ <<last.out.status, last.out.data>> = WebhookExpected(last.data)
          /\ last.calls = 0 /\ last.req = NoReq
    /\ \A i \in 1..Len(inflight) : inflight[i].op # "getWebhookActionAndData"

\* payment.succeeded with a session id in its metadata, given "authorized"
C15_Witness ==
    /\ WebhookHandled
    /\ last.data["type"] = StrV(<<"payment.succeeded">>)
    /\ last.out.status = StrV(<<"authorized">>)
    /\ last.out.data["session_id"] = StrV(<<"s1">>)
    /\ last.out.data["amount"] = NumV(200)

\* the operations the host chains on the session data of an initiated payment
ChainedOps ==
    {"getPaymentStatus", "authorizePayment", "capturePayment", "refundPayment",
     "cancelPayment", "retrievePayment", "deletePayment"}

\* the checkout id that session data holds
HeldCheckoutId(data) == Get(data, "yocoCheckoutId")

\* a request names no checkout (none was sent) or the one the session data holds
TargetsHeldCheckout(data, req) ==
    req # NoReq => (req.target \in {"checkout", "refund"} /\ req.id = HeldCheckoutId(data).s)

\* the session data holds the id of a checkout the provider created for
\* initiatePayment
Initiated(data) ==
    /\ HeldCheckoutId(data).t = "string"
    /\ CheckoutAt(HeldCheckoutId(data).s) \in InitiatedCheckouts

\* C16: a successful initiatePayment returns session data holding the provider's
\* checkout id; every one of getPaymentStatus, authorizePayment, capturePayment,
\* refundPayment, cancelPayment, retrievePayment and deletePayment that is given
\* session data holding that id sends its request, if any, for that checkout,
\* and the session data it returns holds the same id still: so along any chain
\* of these calls every external call targets the same checkout.
C16_SameCheckout ==
    /\ (LastWas("initiatePayment") /\ last.out.kind = "return") =>
          /\ HeldCheckoutId(last.out.data) = last.resp.data["id"]
          /\ Initiated(last.out.data)
    /\ (last.op \in ChainedOps /\ Initiated(last.data)) =>
          /\ TargetsHeldCheckout(last.data, last.req)
          /\ (last.out.kind = "return" /\ last.op # "getPaymentStatus") =>
                HeldCheckoutId(last.out.data) = HeldCheckoutId(last.data)
    /\ \A i \in 1..Len(inflight) :
          (inflight[i].op \in ChainedOps /\ Initiated(inflight[i].data)) =>
              TargetsHeldCheckout(inflight[i].data, inflight[i].req)

\* a checkout made by initiatePayment in this run, and a later operation chained
\* on the returned session data that asked the provider about that checkout
C16_Witness ==
    /\ last.op \in ChainedOps
    /\ last.calls = 1
    /\ Initiated(last.data)
    /\ last.req.id = CheckoutId(1)
    /\ checkouts[1] # PaidCheckout
    /\ last.out.kind = "return"

\* C17: getPaymentStatus never fails: whatever the session data, and whatever
\* the outcome of the checkout fetch (an answer, a provider error status, a
\* transport failure, an unparseable body), it returns a status, and the status
\* is pending when the fetch failed.
C17_StatusNeverThrows ==
    LastWas("getPaymentStatus") =>
        /\ last.out.kind = "return"
        /\ last.out.status.t = "string"
        /\ CallFailed => last.out.status = Pending

\* a status poll whose fetch failed, answered pending
C17_Witness ==
    /\ LastWas("getPaymentStatus")
    /\ CallFailed
    /\ last.out.status = Pending

CreateRequestsBuilt == fin.fn = "createRequest" /\ fout.done

\* C18 as stated: for every input (amount, currency, context) and the same
\* configuration, updatePayment accepts exactly the inputs initiatePayment
\* accepts, and for an accepted input sends the provider the same
\* create-checkout request body as initiatePayment.
C18_UpdateAsInitiate ==
    CreateRequestsBuilt =>
        /\ fout.stepA.await <=> fout.stepB.await
        /\ fout.stepA.await =>
              /\ fout.stepB.req.method = fout.stepA.req.method
              /\ fout.stepB.req.target = fout.stepA.req.target
              /\ fout.stepB.req.body = fout.stepA.req.body

\* the refund requests built so far that are still known: those of suspended
\* invocations and that of the last completed one, each with the amount given
RefundRequests ==
    {<<inflight[i].input.amount, inflight[i].req>> :
        i \in {j \in 1..Len(inflight) : inflight[j].op = "refundPayment"}}
    \cup (IF LastWas("refundPayment") /\ last.calls = 1
          THEN {<<last.input.amount, last.req>>} ELSE {})

\* a partial refund of the given amount: the body carries it in cents, the key is
\* refund-<id>-<cents>-<suffix>
PartialRefund(amount, req) ==
    /\ DOMAIN req.body = {"amount"}
    /\ req.body["amount"] = MathRound(Number(amount))
    /\ StartsWith(req.key.s, RefundPrefix \o req.id \o <<"-">>
                                 \o ToStr(MathRound(Number(amount))) \o <<"-">>)

\* a full refund: an empty body, the key is refund-<id>-full-<suffix>
FullRefund(req) ==
    /\ req.body = EmptyObject
    /\ StartsWith(req.key.s, RefundPrefix \o req.id \o <<"-", "f", "u", "l", "l", "-">>)

\* C19 as stated: refundPayment issues a partial refund (the body carries the
\* given amount in cents, the key has the partial form) exactly when an amount
\* is given and a full refund (empty body, key of the full form) exactly when
\* none is given, and no two invocations use the same key.
C19_RefundRequest ==
    /\ \A x \in RefundRequests :
          /\ x[2].method = "POST" /\ x[2].target = "refund"
          /\ IF x[1].t # "undefined" THEN PartialRefund(x[1], x[2]) /\ ~FullRefund(x[2])
             ELSE FullRefund(x[2])
    /\ \A i, j \in 1..Len(inflight) :
          (i # j /\ inflight[i].op = "refundPayment" /\ inflight[j].op = "refundPayment")
              => inflight[i].req.key # inflight[j].req.key
    /\ \A i \in 1..Len(inflight) :
          (inflight[i].op = "refundPayment" /\ LastWas("refundPayment") /\ last.calls = 1)
              => inflight[i].req.key # last.req.key

WriteOps == {"initiatePayment", "updatePayment", "refundPayment"}

ReadOps == {"getPaymentStatus", "authorizePayment", "capturePayment", "retrievePayment"}

LocalOps == {"cancelPayment", "deletePayment", "getWebhookActionAndData"}

\* the request of an operation is of the kind the claim gives the operation
RequestAllowed(op, req) ==
    /\ op \in WriteOps => req = NoReq \/ req.method = "POST"
    /\ op \in ReadOps => req = NoReq \/ (req.method = "GET" /\ req.target = "checkout"
                                         /\ ~req.hasBody)
    /\ op \in LocalOps => req = NoReq

C20_RequestKinds ==
    /\ last.op # "" => RequestAllowed(last.op, last.req)
    /\ \A i \in 1..Len(inflight) :
          /\ inflight[i].op \notin LocalOps
          /\ inflight[i].req # NoReq
          /\ RequestAllowed(inflight[i].op, inflight[i].req)

\* the provider made a checkout or executed a refund in this step
ProviderWrote == Len(checkouts') > Len(checkouts) \/ refunds' # refunds

\* the step answered a POST of initiatePayment, updatePayment or refundPayment
AnsweredWrite ==
    \E i \in 1..Len(inflight) :
        /\ inflight[i].op \in WriteOps
        /\ inflight[i].req.method = "POST"
        /\ ~inflight[i].answered
        /\ inflight'[i].answered

\* C20: only initiatePayment, updatePayment and refundPayment issue a POST;
\* getPaymentStatus, authorizePayment, capturePayment and retrievePayment issue
\* only a GET of the checkout; cancelPayment, deletePayment and
\* getWebhookActionAndData issue no call; and the provider makes a checkout or
\* executes a refund only in answer to a POST of the first three.
C20_OnlyWritesMutate ==
    /\ []C20_RequestKinds
    /\ [][ProviderWrote => AnsweredWrite]_vars

\* a read of an existing checkout by retrievePayment, answered, with the
\* provider's checkouts as they were
C20_Witness ==
    /\ LastWas("retrievePayment")
    /\ last.calls = 1
    /\ last.req.method = "GET"
    /\ AnsweredOk(last.resp)
    /\ checkouts = <<PaidCheckout>>
    /\ refunds = <<>>

\* the create-checkout requests built so far that are still known
CreateRequests ==
    {inflight[i].req : i \in {j \in 1..Len(inflight) : inflight[j].req.target = "checkouts"}}
    \cup (IF last.req.target = "checkouts" THEN {last.req} ELSE {})

\* the body carries an integer amount of at least 200 and the currency "ZAR"
ValidCreateBody(body) ==
    /\ "amount" \in DOMAIN body
    /\ body["amount"].t = "number"
    /\ ~body["amount"].half
    /\ body["amount"].n >= 200
    /\ "currency" \in DOMAIN body
    /\ body["currency"] = StrV(ZAR)

\* C21 as stated: every create-checkout request that initiatePayment or
\* updatePayment sends carries an integer amount of at least 200 and the
\* currency "ZAR", whatever amount and currency the host passed (fractional
\* and non-numeric amounts, currency codes in another letter case); an
\* invocation whose validation failed sent no request.
C21_ValidCreateRequests ==
    /\ \A req \in CreateRequests : req.method = "POST" /\ ValidCreateBody(req.body)
    /\ (last.op \in {"initiatePayment", "updatePayment"} /\ last.calls = 0) =>
          last.out.kind = "throw" /\ last.req = NoReq

HostStatusMapped == fin.fn = "hostStatus" /\ fout.done

\* C22: for every status the provider returns for a checkout, getPaymentStatus
\* and authorizePayment, given the same successful fetch, report the same host
\* status; authorizePayment reports authorized only when the fetched status is
\* "completed" (and does so then).
C22_SameHostStatus ==
    HostStatusMapped =>
        /\ fout.stepA.out.kind = "return"
        /\ fout.stepB.out.kind = "return"
        /\ fout.stepA.out.status = fout.stepB.out.status
        /\ fout.stepB.out.status = StrV(<<"authorized">>)
              <=> fin.status = StrV(<<"completed">>)

\* a completed checkout, reported authorized by both
C22_Witness ==
    /\ HostStatusMapped
    /\ fin.status = StrV(<<"completed">>)
    /\ fout.stepA.out.status = StrV(<<"authorized">>)
    /\ fout.stepB.out.status = StrV(<<"authorized">>)

ApiApplied == fin.fn = "api" /\ fout.done

\* the way the call ended
ApiOutcome == fin.status.s[1]

\* the adapter code the provider's errorCode maps to
MappedCode(errorCode) ==
    IF errorCode \in DOMAIN ErrorCodeTable THEN ErrorCodeTable[errorCode] ELSE "API_ERROR"

\* C23 as stated: in api every failed external call raises one adapter error;
\* every response with a non-success HTTP status yields the provider error whose
\* code is mapped from the provider's errorCode; only transport and
\* response-parsing failures yield NETWORK_ERROR.
C23_ApiErrors ==
    ApiApplied =>
        /\ fout.status = BoolV(ApiOutcome # "ok")
        /\ ApiOutcome # "ok" => fout.err.type = "YocoPaymentError"
        /\ ApiOutcome \in {"error status", "error status, not JSON"} =>
              /\ fout.err.code # "NETWORK_ERROR"
              /\ ApiOutcome = "error status" =>
                    fout.err.code = MappedCode(fin.err.errorCode)
        /\ fout.err.code = "NETWORK_ERROR" =>
              ApiOutcome \in {"fetch failed", "ok status, not JSON", "error status, not JSON"}

===========================================================================
